---------------------------- MODULE Spec2Model ----------------------------
(***************************************************************************)
(* Model of src/dssat/rice.py, the DSSAT rice interface (class Model).     *)
(*                                                                         *)
(* Two operations are modelled as state machines:                          *)
(*   - writeControlFile (with the section writers and cultivar() that it   *)
(*     calls), specification Spec;                                         *)
(*   - runModelInstance (with the external DSSAT process it launches),     *)
(*     specification SpecRun.                                              *)
(*                                                                         *)
(* The code is Python 2: map() returns a list and "/" on two ints is the   *)
(* floor division.                                                         *)
(*                                                                         *)
(* Text is modelled by what the format strings produce: a "d"-formatted    *)
(* integer is its sequence of decimal digits, a %Y%j date is 4 year digits *)
(* followed by 3 day-of-year digits, a fixed-decimals float is the value   *)
(* rounded to that many decimals.  A control file is the sequence of       *)
(* sections written to it, in the order of the writes; a section holds the *)
(* date fields of its header line and its data rows.                       *)
(***************************************************************************)
EXTENDS Integers, Sequences, FiniteSets, TLC

(***************************************************************************)
(* Bounds of the model.                                                    *)
(***************************************************************************)
\* largest ensemble count self.nens
MaxEns == 3
\* longest soil-moisture list vsm
MaxVsm == 4
\* longest irrigation / fertilizer schedule
MaxSched == 2
\* most layers of a sampled soil profile
MaxLayers == 2
\* most rows of the dssat.cultivars table
MaxRows == 2
\* largest ensemble count in the calls that vary the soil profiles
MaxSoilEns == 1
\* largest ensemble count in the calls that vary the dates, the schedules or the cultivars
MaxSchedEns == 2

VARIABLES
    pc,           \* position of writeControlFile: "call", "loop", "done", "error"
    err,          \* the exception that ended the call ("" when none)
    nens,         \* self.nens
    args,         \* the arguments of the call, as passed
    env,          \* what the delegated parts hold: the cultivar table, the sampled profiles
    loc,          \* the locals of writeControlFile
    fs,           \* the control files on disk: a set of [name, content]
    opened,       \* the file names opened for writing, in order
    cultivars,    \* self.cultivars[gid]
    sqllog,       \* the queries cultivar() has executed, in order
    interpCalls,  \* the calls of interpolateSoilMoist, in order: arguments and result
    ret,          \* the value returned by writeControlFile
    rpc,          \* position of runModelInstance
    rerr,         \* the exception that ended runModelInstance
    rens,         \* loop variable ens of runModelInstance
    wineOK,       \* whether the wine executable can be started
    dir,          \* the files of the model directory: a set of [name, by]
    dir0,         \* the files of the model directory when runModelInstance was called
    procs,        \* the external processes running
    launched,     \* the ensemble members a process was launched for, in order
    status,       \* the terminated processes, in order: member, exit code, output present
    renamed       \* the renames done, in order: member, and whose run wrote the file

wcfVars == <<pc, err, nens, args, env, loc, fs, opened, cultivars, sqllog, interpCalls, ret>>
runVars == <<rpc, rerr, rens, wineOK, dir, dir0, procs, launched, status, renamed>>
vars == <<wcfVars, runVars>>

(***************************************************************************)
(* Python helpers.                                                         *)
(***************************************************************************)
RECURSIVE Digits(_)
\* the decimal digits of n >= 0, most significant first
Digits(n) == IF n < 10 THEN <<n>> ELSE Append(Digits(n \div 10), n % 10)

RECURSIVE ZeroFill(_, _)
ZeroFill(s, w) == IF Len(s) >= w THEN s ELSE ZeroFill(<<0>> \o s, w)

\* "{:0wd}".format(n): zero-padded to at least w digits
FmtD(n, w) == ZeroFill(Digits(n), w)

RECURSIVE Repeat(_, _)
\* s * n for a list s
Repeat(s, n) == IF n <= 0 THEN <<>> ELSE s \o Repeat(s, n - 1)

\* s[:n]
Prefix(s, n) == SubSeq(s, 1, IF n < Len(s) THEN n ELSE Len(s))

\* a float with one more decimal than is kept, rounded half to even
RoundLast(v) ==
    LET q == v \div 10
        r == v % 10
    IN  IF r > 5 \/ (r = 5 /\ q % 2 = 1) THEN q + 1 ELSE q

(***************************************************************************)
(* datetime: a date is [y, m, d]; a day of a year is [y, j].               *)
(***************************************************************************)
IsLeap(y) == (y % 4 = 0 /\ y % 100 # 0) \/ y % 400 = 0

DaysInYear(y) == IF IsLeap(y) THEN 366 ELSE 365

DaysInMonth(y, m) ==
    CASE m \in {4, 6, 9, 11} -> 30
      [] m = 2 -> IF IsLeap(y) THEN 29 ELSE 28
      [] OTHER -> 31

RECURSIVE DaysBefore(_, _)
\* the days of year y before month m
DaysBefore(y, m) == IF m <= 1 THEN 0 ELSE DaysBefore(y, m - 1) + DaysInMonth(y, m - 1)

\* date.replace(year) raises ValueError when the day does not exist in that year
CanReplace(dt, y) == dt.d <= DaysInMonth(y, dt.m)

Replace(dt, y) == [y |-> y, m |-> dt.m, d |-> dt.d]

\* the year and the day of the year (%j) of a date
YearDay(dt) == [y |-> dt.y, j |-> DaysBefore(dt.y, dt.m) + dt.d]

\* a day of a year moved by n days, -366 < n < 366
AddDays(yd, n) ==
    LET j == yd.j + n
    IN  IF j < 1 THEN [y |-> yd.y - 1, j |-> j + DaysInYear(yd.y - 1)]
        ELSE IF j > DaysInYear(yd.y) THEN [y |-> yd.y + 1, j |-> j - DaysInYear(yd.y)]
        ELSE [y |-> yd.y, j |-> j]

\* strftime("%Y%j")
Strftime(yd) == FmtD(yd.y, 4) \o FmtD(yd.j, 3)


(***************************************************************************)
(* The section writers.  Each yields the section it writes:                *)
(* [sec, dates, rows], the date fields of its fixed lines and its data     *)
(* rows.  The literal text of the templates is left out.                   *)
(***************************************************************************)
Section(name, dates, rows) == [sec |-> name, dates |-> dates, rows |-> rows]

\* the year that writeControlFile and writeWeatherFiles force
RefYear == 2009

writeFileNames(ens) == Section("FILES", <<>>, <<[weather |-> FmtD(ens + 1, 3)]>>)

writeSimulationControl(startdate) ==
    Section("SIMULATION CONTROL", <<Strftime(YearDay(startdate))>>, <<>>)

writeAutomaticMgmt(startdate) ==
    LET t0 == AddDays(YearDay(startdate), -3)
        t1 == AddDays(t0, 14)
    IN  Section("AUTOMATIC MANAGEM", <<Strftime(t0), Strftime(t1)>>, <<>>)

writeExpDetails == Section("EXP.DETAILS", <<>>, <<>>)

writeTreatments == Section("TREATMENTS", <<>>, <<>>)

writeCultivars == Section("CULTIVARS", <<>>, <<>>)

writeFields == Section("FIELDS", <<>>, <<>>)

\* writeInitialConditions with the moisture of the first layer on every line
writeInitialConditions_FirstLayer(startdate, dz, smi) ==
    Section("INITIAL CONDITIONS", <<Strftime(YearDay(startdate))>>,
            [lyr \in 1..Len(dz) |->
                [depth |-> RoundLast(dz[lyr]), moist |-> RoundLast(smi[1][1])]])

\* dz in tenths, smi in ten-thousandths: {0:8.0f} and {1:8.3f} round them
writeInitialConditions(startdate, dz, smi) ==
    Section("INITIAL CONDITIONS", <<Strftime(YearDay(startdate))>>,
            [lyr \in 1..Len(dz) |->
                [depth |-> RoundLast(dz[lyr]), moist |-> RoundLast(smi[1][lyr])]])

writePlanting(pdt) == Section("PLANTING DETAILS", <<Strftime(YearDay(pdt))>>, <<>>)

\* writeIrrigation with the record code counted from 0
writeIrrigation_FromZero(irrigation) ==
    Section("IRRIGATION", <<>>,
            [i \in 1..Len(irrigation) |->
                [date |-> Strftime(YearDay(irrigation[i][1])),
                 code |-> FmtD(i - 1, 3),
                 amount |-> RoundLast(irrigation[i][2])]])

\* an entry is <<date, amount>>, the amount in hundredths: {2:4.1f} rounds it
writeIrrigation(irrigation) ==
    Section("IRRIGATION", <<>>,
            [i \in 1..Len(irrigation) |->
                [date |-> Strftime(YearDay(irrigation[i][1])),
                 code |-> FmtD(i, 3),
                 amount |-> RoundLast(irrigation[i][2])]])

\* an entry is <<date, amount, percent>>
writeFertilizer(fertilizers) ==
    Section("FERTILIZERS", <<>>,
            [f \in 1..Len(fertilizers) |->
                [date |-> Strftime(YearDay(fertilizers[f][1])),
                 fe |-> FmtD(f, 3),
                 ap |-> FmtD(f, 3),
                 amount |-> FmtD(fertilizers[f][2], 2),
                 percent |-> FmtD(fertilizers[f][3], 2)]])

writeResidues == Section("RESIDUES", <<>>, <<>>)

writeChemicals == Section("CHEMICALS", <<>>, <<>>)

writeTillage == Section("TILLAGE", <<>>, <<>>)

writeEnvironment == Section("ENVIRONMENT", <<>>, <<>>)

writeHarvest == Section("HARVEST", <<>>, <<>>)

\* prof[:-1], an empty line, then one line per layer depth
writeSoil(prof, dz) ==
    Section("SOIL", <<>>,
            [i \in 1..(Len(prof) - 1) |-> [text |-> prof[i]]]
            \o <<[text |-> <<>>]>>
            \o [i \in 1..Len(dz) |-> [text |-> <<RoundLast(dz[i])>>]])

writeCultivar(cultivar) == Section("CULTIVAR", <<>>, <<cultivar>>)

(***************************************************************************)
(* cultivar(ens, gid).  The table dssat.cultivars is a sequence of rows    *)
(* [crop, ensemble, intersects, dist, p1, name]: intersects and dist are   *)
(* st_intersects and the centroid distance to the area gid of the call,    *)
(* p1 stands for the eight coefficients.  A query without ORDER BY yields  *)
(* its rows in the order of the table.                                     *)
(***************************************************************************)
RECURSIVE InsertByDist(_, _)
InsertByDist(r, s) ==
    IF s = <<>> THEN <<r>>
    ELSE IF r.dist < s[1].dist THEN <<r>> \o s
    ELSE <<s[1]>> \o InsertByDist(r, Tail(s))

RECURSIVE OrderByDist(_)
\* order by st_centroid(c.geom) <-> st_centroid(a.geom)
OrderByDist(s) ==
    IF s = <<>> THEN <<>>
    ELSE InsertByDist(s[Len(s)], OrderByDist(SubSeq(s, 1, Len(s) - 1)))

IsRice(r, e) == r.crop = "rice" /\ r.ensemble = e

\* the first statement: the cultivars that intersect the area
QueryIntersects(db, e) == SelectSeq(db, LAMBDA r : IsRice(r, e) /\ r.intersects)

\* QueryNearest without its ORDER BY
QueryNearest_Unordered(db, e) == SelectSeq(db, LAMBDA r : IsRice(r, e))

\* the second statement: the cultivars by distance
QueryNearest(db, e) == OrderByDist(SelectSeq(db, LAMBDA r : IsRice(r, e)))

\* the statements executed and the row fetchone() yields (found: there is one)
cultivar(db, ens) ==
    LET first == QueryIntersects(db, ens + 1)
        again == Len(first) = 0
        rows == IF again THEN QueryNearest(db, ens + 1) ELSE first
    IN  [queries |-> IF again
                     THEN <<[stmt |-> "intersects", ensemble |-> ens + 1],
                            [stmt |-> "nearest", ensemble |-> ens + 1]>>
                     ELSE <<[stmt |-> "intersects", ensemble |-> ens + 1]>>,
         found |-> Len(rows) > 0,
         rows |-> Prefix(rows, 1)]

\* the line cultivar() formats from the fetched row
CultivarLine(row) == [p1 |-> row.p1]

(***************************************************************************)
(* The parts delegated to the superclass DSSAT.                            *)
(***************************************************************************)
\* the values of an interpolated soil moisture, in ten-thousandths
MoistVals == {2846, 3004}

\* interpolateSoilMoist(sm, depths, dz): a 1 x len(dz) array of moistures
interpolateSoilMoist(sm, depths, dz) == {<<row>> : row \in [1..Len(dz) -> MoistVals]}

\* a profile text split into lines, a line split into tokens: three header
\* lines, a line per layer that starts with the layer's depth, and the empty
\* piece that follows the last line break
ProfileText(layers) ==
    <<<<0>>, <<0>>, <<0>>>> \o [i \in 1..Len(layers) |-> <<layers[i], 0>>] \o << <<>> >>

(***************************************************************************)
(* writeControlFile                                                        *)
(***************************************************************************)
\* ExpandVsm without the "+ 1": one repetition too few
ExpandVsm_OneShort(vsm, n) ==
    IF vsm.list
    THEN Prefix(Repeat(vsm.v, n \div Len(vsm.v)), n)
    ELSE Repeat(<<vsm.v>>, n)

\* lines 159-162: the soil moisture of each ensemble member
ExpandVsm(vsm, n) ==
    IF vsm.list
    THEN Prefix(Repeat(vsm.v, (n \div Len(vsm.v)) + 1), n)
    ELSE Repeat(<<vsm.v>>, n)

\* lines 168-169: the schedule used when the argument is None
OrDefault(sched, default) == IF sched.none THEN [none |-> FALSE, v |-> default] ELSE sched

\* DefaultFertilizers with amount and percent swapped
DefaultFertilizers_Swapped(startdate) == <<<<startdate, 20, 30>>>>

DefaultFertilizers(startdate) == <<<<startdate, 30, 20>>>>

DefaultIrrigation(startdate) == <<<<startdate, 0>>>>

\* line 171: the first token of the lines [3:-1] of the profile
LayerDepths(profile) == [i \in 1..(Len(profile) - 4) |-> profile[i + 3][1]]

\* FileName without the member: every member writes the same file
FileName_NoMember(n, ens) == [count |-> Digits(n), member |-> FmtD(1, 3)]

\* line 174: the file name, as the ensemble count and the 3-digit member
FileName(n, ens) == [count |-> Digits(n), member |-> FmtD(ens + 1, 3)]

\* lines 176-193: the sections in the order they are written
ControlFile(ens, startdate, planting, irrigation, fertilizers, prof, dz, smi, cult) ==
    << writeFileNames(ens),
       writeSimulationControl(startdate),
       writeAutomaticMgmt(startdate),
       writeExpDetails,
       writeTreatments,
       writeCultivars,
       writeFields,
       writeInitialConditions(startdate, dz, smi),
       writePlanting(planting),
       writeIrrigation(irrigation),
       writeFertilizer(fertilizers),
       writeResidues,
       writeChemicals,
       writeTillage,
       writeEnvironment,
       writeHarvest,
       writeSoil(prof, dz),
       writeCultivar(cult) >>

\* open(filename, 'w') and the writes: the file is created or replaced
WriteFile(files, name, content) ==
    {f \in files : f.name # name} \cup {[name |-> name, content |-> content]}

\* lines 157-165, up to the loop
WCF_Enter ==
    /\ pc = "call"
    /\ IF ~CanReplace(args.startdate, RefYear) \/ ~CanReplace(args.planting, RefYear)
       THEN /\ pc' = "error"
            /\ err' = "ValueError"
            /\ UNCHANGED <<loc, cultivars>>
       ELSE IF args.vsm.list /\ Len(args.vsm.v) = 0
       THEN /\ pc' = "error"
            /\ err' = "ZeroDivisionError"
            /\ loc' = [loc EXCEPT !.startdate = Replace(args.startdate, RefYear),
                                  !.planting = Replace(args.planting, RefYear)]
            /\ UNCHANGED cultivars
       ELSE /\ pc' = "loop"
            /\ loc' = [loc EXCEPT !.startdate = Replace(args.startdate, RefYear),
                                  !.planting = Replace(args.planting, RefYear),
                                  !.vsm = ExpandVsm(args.vsm, nens),
                                  !.profiles = env.soil]
            /\ cultivars' = <<>>
            /\ UNCHANGED err
    /\ UNCHANGED <<nens, args, env, fs, opened, sqllog, interpCalls, ret>>
    /\ UNCHANGED runVars

\* lines 166-193: one pass of the loop, for ensemble member loc.ens
WCF_Member ==
    /\ pc = "loop"
    /\ loc.ens < nens
    /\ LET ens == loc.ens
           sm == loc.vsm[ens + 1]
           fertilizers == OrDefault(loc.fertilizers, DefaultFertilizers(loc.startdate))
           irrigation == OrDefault(loc.irrigation, DefaultIrrigation(loc.startdate))
           prof == loc.profiles[ens + 1]
           dz == LayerDepths(prof)
           c == cultivar(env.db, ens)
       IN  \E smi \in interpolateSoilMoist(sm, args.depths, dz) :
             /\ interpCalls' = Append(interpCalls,
                                      [sm |-> sm, depths |-> args.depths, dz |-> dz, smi |-> smi])
             /\ sqllog' = sqllog \o c.queries
             /\ IF ~c.found
                THEN /\ pc' = "error"
                     /\ err' = "TypeError"
                     /\ loc' = [loc EXCEPT !.fertilizers = fertilizers,
                                           !.irrigation = irrigation,
                                           !.dz = dz, !.smi = smi]
                     /\ UNCHANGED <<fs, opened, cultivars>>
                ELSE /\ cultivars' = Append(cultivars, c.rows[1].name)
                     /\ fs' = WriteFile(fs, FileName(nens, ens),
                                        ControlFile(ens, loc.startdate, loc.planting,
                                                    irrigation.v, fertilizers.v, prof, dz, smi,
                                                    CultivarLine(c.rows[1])))
                     /\ opened' = Append(opened, FileName(nens, ens))
                     /\ loc' = [loc EXCEPT !.fertilizers = fertilizers,
                                           !.irrigation = irrigation,
                                           !.dz = dz, !.smi = smi,
                                           !.ens = ens + 1]
                     /\ UNCHANGED <<pc, err>>
    /\ UNCHANGED <<nens, args, env, ret>>
    /\ UNCHANGED runVars

\* line 194
WCF_Return ==
    /\ pc = "loop"
    /\ loc.ens = nens
    /\ pc' = "done"
    /\ ret' = [dz |-> loc.dz, smi |-> loc.smi]
    /\ UNCHANGED <<err, nens, args, env, loc, fs, opened, cultivars, sqllog, interpCalls>>
    /\ UNCHANGED runVars

(***************************************************************************)
(* The calls of writeControlFile that are explored.                        *)
(***************************************************************************)
SeqsUpTo(S, n) == UNION {[1..k -> S] : k \in 0..n}

Date(y, m, d) == [y |-> y, m |-> m, d |-> d]

\* <<startdate, planting>>
DateInputs ==
    { <<Date(2015, 1, 2), Date(2015, 7, 1)>>,
      <<Date(2012, 2, 29), Date(2012, 7, 1)>>,
      <<Date(2012, 3, 1), Date(2012, 12, 31)>>,
      <<Date(2015, 12, 25), Date(2016, 2, 29)>>,
      <<Date(2015, 12, 25), Date(2016, 1, 5)>>,
      <<Date(2005, 6, 15), Date(2005, 7, 1)>> }

Scalar(v) == [list |-> FALSE, v |-> v]

List(v) == [list |-> TRUE, v |-> v]

\* a soil moisture is named by a number
SoilMoistures == {1, 2}

NoSchedule == [none |-> TRUE, v |-> <<>>]

Schedules(entries) ==
    {NoSchedule} \cup {[none |-> FALSE, v |-> v] : v \in SeqsUpTo(entries, MaxSched)}

IrrigationEntries == {<<Date(2015, 6, 1), 250>>, <<Date(2009, 7, 1), 1004>>}

FertilizerEntries == {<<Date(2015, 6, 1), 30, 20>>, <<Date(2009, 7, 1), 5, 46>>}

\* layer depths, in tenths
DepthVals == {150, 300, 605}

Increasing(s) == \A i \in 1..(Len(s) - 1) : s[i] < s[i + 1]

Profiles ==
    {ProfileText(l) : l \in {s \in SeqsUpTo(DepthVals, MaxLayers) : Len(s) > 0 /\ Increasing(s)}}

DepthInputs == {<<150, 300, 600>>, <<150, 300>>}

CultivarRow(crop, e, x, dist) ==
    [crop |-> crop, ensemble |-> e, intersects |-> x, dist |-> dist,
     p1 |-> 1000 * e + 100 * dist + (IF x THEN 10 ELSE 0) + (IF crop = "rice" THEN 1 ELSE 0),
     name |-> 100 * e + 10 * dist + (IF x THEN 1 ELSE 0)]

CultivarRows ==
    {CultivarRow("rice", e, x, dist) : e \in 1..MaxSchedEns, x \in BOOLEAN, dist \in {1, 2}}
    \cup {CultivarRow("maize", 1, TRUE, 1)}

BaseArgs ==
    [vsm |-> Scalar(1), depths |-> <<150, 300, 600>>,
     startdate |-> Date(2015, 6, 15), planting |-> Date(2015, 7, 1),
     fertilizers |-> NoSchedule, irrigation |-> NoSchedule]

BaseDb == [e \in 1..MaxEns |-> CultivarRow("rice", e, TRUE, 1)]

BaseSoil(n) == [e \in 1..n |-> ProfileText(<<150>>)]

\* the soil moisture varies
InitVsm ==
    /\ nens \in 1..MaxEns
    /\ \/ \E v \in SoilMoistures : args = [BaseArgs EXCEPT !.vsm = Scalar(v)]
       \/ \E v \in SeqsUpTo(SoilMoistures, MaxVsm) : args = [BaseArgs EXCEPT !.vsm = List(v)]
    /\ env = [db |-> BaseDb, soil |-> BaseSoil(nens)]

\* the dates and the schedules vary
InitSchedules ==
    /\ nens \in 1..MaxSchedEns
    /\ \E d \in DateInputs,
          f \in Schedules(FertilizerEntries), i \in Schedules(IrrigationEntries) :
            args = [BaseArgs EXCEPT !.startdate = d[1], !.planting = d[2],
                                    !.fertilizers = f, !.irrigation = i]
    /\ env = [db |-> BaseDb, soil |-> BaseSoil(nens)]

\* the sampled soil profiles and the depths of the soil moisture vary
InitSoil ==
    /\ nens \in 1..MaxSoilEns
    /\ \E d \in DepthInputs : args = [BaseArgs EXCEPT !.depths = d]
    /\ \E soil \in [1..nens -> Profiles] : env = [db |-> BaseDb, soil |-> soil]

\* the cultivar table varies
InitCultivars ==
    /\ nens \in 1..MaxSchedEns
    /\ args = BaseArgs
    /\ \E db \in SeqsUpTo(CultivarRows, MaxRows) : env = [db |-> db, soil |-> BaseSoil(nens)]

RunIdle ==
    /\ rpc = "idle"
    /\ rerr = ""
    /\ rens = 0
    /\ wineOK = TRUE
    /\ dir = {}
    /\ dir0 = {}
    /\ procs = {}
    /\ launched = <<>>
    /\ status = <<>>
    /\ renamed = <<>>

Init ==
    /\ InitVsm \/ InitSchedules \/ InitSoil \/ InitCultivars
    /\ pc = "call"
    /\ err = ""
    /\ loc = [startdate |-> args.startdate, planting |-> args.planting, vsm |-> <<>>,
              profiles |-> <<>>, fertilizers |-> args.fertilizers,
              irrigation |-> args.irrigation, ens |-> 0, dz |-> <<>>, smi |-> <<>>]
    /\ fs = {}
    /\ opened = <<>>
    /\ cultivars = <<>>
    /\ sqllog = <<>>
    /\ interpCalls = <<>>
    /\ ret = [dz |-> <<>>, smi |-> <<>>]
    /\ RunIdle

Next == WCF_Enter \/ WCF_Member \/ WCF_Return

Spec == Init /\ [][Next]_vars

(***************************************************************************)
(* runModelInstance.  A file of the model directory is [name, by]: by is   *)
(* the ensemble member whose run wrote it, 0 for a file that was there     *)
(* before the call.                                                        *)
(***************************************************************************)
\* "PlantGro.OUT", the file the external program writes
PlantGro == [base |-> "PlantGro.OUT", member |-> <<>>]

\* "PLANTGRO{0:03d}.OUT".format(k)
PlantGroOf(k) == [base |-> "PLANTGRO", member |-> FmtD(k, 3)]

Exists(d, name) == \E f \in d : f.name = name

\* os.rename on POSIX: dst is replaced when it exists
Rename(d, src, dst) ==
    {f \in d : f.name # src /\ f.name # dst}
    \cup {[name |-> dst, by |-> f.by] : f \in {g \in d : g.name = src}}

\* lines 208-210
RMI_Enter ==
    /\ rpc = "call"
    /\ rpc' = "popen"
    /\ rens' = 0
    /\ UNCHANGED <<rerr, wineOK, dir, dir0, procs, launched, status, renamed>>
    /\ UNCHANGED wcfVars

\* line 212: the process of member rens + 1 is started
RMI_Popen ==
    /\ rpc = "popen"
    /\ rens < nens
    /\ IF wineOK
       THEN /\ procs' = procs \cup {[member |-> rens + 1]}
            /\ launched' = Append(launched, rens + 1)
            /\ rpc' = "communicate"
            /\ UNCHANGED rerr
       ELSE /\ rpc' = "error"
            /\ rerr' = "OSError: wine"
            /\ UNCHANGED <<procs, launched>>
    /\ UNCHANGED <<rens, wineOK, dir, dir0, status, renamed>>
    /\ UNCHANGED wcfVars

\* the external program ends: it has written PlantGro.OUT or not, and exits
\* with status 0 or not
DSSAT_Exit ==
    /\ \E p \in procs, wrote \in BOOLEAN, code \in {0, 1} :
         /\ procs' = procs \ {p}
         /\ dir' = IF wrote
                   THEN {f \in dir : f.name # PlantGro}
                        \cup {[name |-> PlantGro, by |-> p.member]}
                   ELSE dir
         /\ status' = Append(status, [member |-> p.member, code |-> code,
                                      output |-> wrote \/ Exists(dir, PlantGro)])
    /\ UNCHANGED <<rpc, rerr, rens, wineOK, dir0, launched, renamed>>
    /\ UNCHANGED wcfVars

\* RMI_Communicate that does not wait for the process
RMI_Communicate_NoWait ==
    /\ rpc = "communicate"
    /\ rpc' = "rename"
    /\ UNCHANGED <<rerr, rens, wineOK, dir, dir0, procs, launched, status, renamed>>
    /\ UNCHANGED wcfVars

\* lines 213-214: communicate() returns once the process has ended
RMI_Communicate ==
    /\ rpc = "communicate"
    /\ [member |-> rens + 1] \notin procs
    /\ rpc' = "rename"
    /\ UNCHANGED <<rerr, rens, wineOK, dir, dir0, procs, launched, status, renamed>>
    /\ UNCHANGED wcfVars

\* RMI_Rename that passes over a missing PlantGro.OUT and goes on with the loop
RMI_Rename_Skip ==
    /\ rpc = "rename"
    /\ IF Exists(dir, PlantGro)
       THEN /\ dir' = Rename(dir, PlantGro, PlantGroOf(rens + 1))
            /\ renamed' = Append(renamed,
                                 [member |-> rens + 1,
                                  by |-> (CHOOSE f \in dir : f.name = PlantGro).by])
       ELSE UNCHANGED <<dir, renamed>>
    /\ rens' = rens + 1
    /\ rpc' = "popen"
    /\ UNCHANGED <<rerr, wineOK, dir0, procs, launched, status>>
    /\ UNCHANGED wcfVars

\* RMI_Rename that runs the member again when PlantGro.OUT is missing
RMI_Rename_Retry ==
    /\ rpc = "rename"
    /\ IF Exists(dir, PlantGro)
       THEN /\ dir' = Rename(dir, PlantGro, PlantGroOf(rens + 1))
            /\ renamed' = Append(renamed,
                                 [member |-> rens + 1,
                                  by |-> (CHOOSE f \in dir : f.name = PlantGro).by])
            /\ rens' = rens + 1
       ELSE UNCHANGED <<dir, renamed, rens>>
    /\ rpc' = "popen"
    /\ UNCHANGED <<rerr, wineOK, dir0, procs, launched, status>>
    /\ UNCHANGED wcfVars

\* line 215, and the step of the loop
RMI_Rename ==
    /\ rpc = "rename"
    /\ IF Exists(dir, PlantGro)
       THEN /\ dir' = Rename(dir, PlantGro, PlantGroOf(rens + 1))
            /\ renamed' = Append(renamed,
                                 [member |-> rens + 1,
                                  by |-> (CHOOSE f \in dir : f.name = PlantGro).by])
            /\ rens' = rens + 1
            /\ rpc' = "popen"
            /\ UNCHANGED rerr
       ELSE /\ rpc' = "error"
            /\ rerr' = "OSError: rename"
            /\ UNCHANGED <<dir, renamed, rens>>
    /\ UNCHANGED <<wineOK, dir0, procs, launched, status>>
    /\ UNCHANGED wcfVars

\* the loop is over
RMI_Return ==
    /\ rpc = "popen"
    /\ rens = nens
    /\ rpc' = "done"
    /\ UNCHANGED <<rerr, rens, wineOK, dir, dir0, procs, launched, status, renamed>>
    /\ UNCHANGED wcfVars

\* the model directories runModelInstance is called in: PlantGro.OUT and the
\* renamed outputs of an earlier run may be there
InitRun ==
    /\ nens \in 1..MaxEns
    /\ args = BaseArgs
    /\ env = [db |-> BaseDb, soil |-> BaseSoil(nens)]
    /\ pc = "idle"
    /\ err = ""
    /\ loc = [startdate |-> args.startdate, planting |-> args.planting, vsm |-> <<>>,
              profiles |-> <<>>, fertilizers |-> args.fertilizers,
              irrigation |-> args.irrigation, ens |-> 0, dz |-> <<>>, smi |-> <<>>]
    /\ fs = {}
    /\ opened = <<>>
    /\ cultivars = <<>>
    /\ sqllog = <<>>
    /\ interpCalls = <<>>
    /\ ret = [dz |-> <<>>, smi |-> <<>>]
    /\ rpc = "call"
    /\ rerr = ""
    /\ rens = 0
    /\ wineOK \in BOOLEAN
    /\ \E stale \in BOOLEAN, old \in SUBSET (1..nens) :
         dir0 = {[name |-> PlantGro, by |-> 0] : x \in {y \in {stale} : y}}
                \cup {[name |-> PlantGroOf(k), by |-> 0] : k \in old}
    /\ dir = dir0
    /\ procs = {}
    /\ launched = <<>>
    /\ status = <<>>
    /\ renamed = <<>>

RunNext ==
    RMI_Enter \/ RMI_Popen \/ DSSAT_Exit \/ RMI_Communicate \/ RMI_Rename \/ RMI_Return

SpecRun == InitRun /\ [][RunNext]_vars


(***************************************************************************)
(* What the claims are stated with.                                        *)
(***************************************************************************)
RECURSIVE DigitsValue(_)
\* the number a sequence of decimal digits writes
DigitsValue(s) ==
    IF s = <<>> THEN 0 ELSE 10 * DigitsValue(SubSeq(s, 1, Len(s) - 1)) + s[Len(s)]

\* the section of a control file with a given name
Sec(content, name) == content[CHOOSE i \in 1..Len(content) : content[i].sec = name]

\* the ensemble member (from 0) a control file is named after
MemberOf(f) == DigitsValue(f.name.member) - 1

Range(s) == {s[i] : i \in 1..Len(s)}

\* the date fields of a control file
DateFields(content) ==
    UNION {Range(content[i].dates) : i \in 1..Len(content)}
    \cup {r.date : r \in Range(Sec(content, "IRRIGATION").rows)}
    \cup {r.date : r \in Range(Sec(content, "FERTILIZERS").rows)}

\* the section names of a control file in the order DSSAT reads them
SectionOrder ==
    << "FILES", "SIMULATION CONTROL", "AUTOMATIC MANAGEM", "EXP.DETAILS", "TREATMENTS",
       "CULTIVARS", "FIELDS", "INITIAL CONDITIONS", "PLANTING DETAILS", "IRRIGATION",
       "FERTILIZERS", "RESIDUES", "CHEMICALS", "TILLAGE", "ENVIRONMENT", "HARVEST",
       "SOIL", "CULTIVAR" >>

\* the element of the soil-moisture argument that member e (from 0) is to use
C1_Expected(e) ==
    IF args.vsm.list THEN args.vsm.v[(e % Len(args.vsm.v)) + 1] ELSE args.vsm.v

(***************************************************************************)
(* C1: a soil moisture that is no list is used by every ensemble member;   *)
(* a non-empty list of length L is expanded to exactly nens entries, and   *)
(* member e uses the element at index e mod L.                             *)
(***************************************************************************)
C1_VsmPerMember ==
    /\ pc \in {"loop", "done"} =>
          /\ Len(loc.vsm) = nens
          /\ \A e \in 0..(nens - 1) : loc.vsm[e + 1] = C1_Expected(e)
    /\ \A k \in 1..Len(interpCalls) : interpCalls[k].sm = C1_Expected(k - 1)

\* a list of two different moistures, shorter than nens, used by all three members
C1_Witness ==
    /\ pc = "done"
    /\ nens = 3
    /\ args.vsm.list
    /\ args.vsm.v = <<1, 2>>
    /\ Len(interpCalls) = 3
    /\ interpCalls[3].sm = 1

\* the rows of a fertilizer section are the one default entry
C2_IsDefaultEntry(rows) ==
    /\ Len(rows) = 1
    /\ rows[1].date = Strftime(YearDay(Replace(args.startdate, RefYear)))
    /\ DigitsValue(rows[1].amount) = 30
    /\ DigitsValue(rows[1].percent) = 20

(***************************************************************************)
(* C2 as stated: given an empty fertilizer list, the fertilizer section of *)
(* every control file holds exactly one entry, dated at the simulation     *)
(* start, with amount 30 and percent 20.                                   *)
(***************************************************************************)
C2_EmptyListGetsDefault ==
    (~args.fertilizers.none /\ args.fertilizers.v = <<>>) =>
        \A f \in fs : C2_IsDefaultEntry(Sec(f.content, "FERTILIZERS").rows)

(***************************************************************************)
(* C2 amended: given no fertilizer schedule (None), the fertilizer section *)
(* of every control file holds exactly that one default entry; a list,     *)
(* empty or not, is written as given, one entry per element.               *)
(***************************************************************************)
C2_NoneGetsDefault ==
    \A f \in fs :
        LET rows == Sec(f.content, "FERTILIZERS").rows
        IN  IF args.fertilizers.none
            THEN C2_IsDefaultEntry(rows)
            ELSE Len(rows) = Len(args.fertilizers.v)

\* a control file written by a call without a fertilizer schedule
C2_Witness ==
    /\ args.fertilizers.none
    /\ args.startdate.y # RefYear
    /\ \E f \in fs : Len(Sec(f.content, "FERTILIZERS").rows) = 1

(***************************************************************************)
(* C3: every date field written to a control file is the year 2009 in 4    *)
(* digits followed by a day of the year in 3 digits.                       *)
(***************************************************************************)
C3_AllDatesIn2009 ==
    \A f \in fs : \A d \in DateFields(f.content) :
        /\ Len(d) = 7
        /\ DigitsValue(SubSeq(d, 1, 4)) = RefYear
        /\ DigitsValue(SubSeq(d, 5, 7)) \in 1..365

\* the irrigation lines of control file f, against the schedule of the call
C4_Irrigation(f) ==
    LET rows == Sec(f.content, "IRRIGATION").rows
        src == IF args.irrigation.none
               THEN <<<<Replace(args.startdate, RefYear), 0>>>>
               ELSE args.irrigation.v
    IN  /\ Len(rows) = Len(src)
        /\ \A i \in 1..Len(rows) :
              /\ rows[i].date = Strftime(YearDay(src[i][1]))
              /\ rows[i].amount = RoundLast(src[i][2])
              /\ Len(rows[i].code) = 3
              /\ DigitsValue(rows[i].code) = i

\* the fertilizer lines of control file f, against the schedule of the call
C4_Fertilizer(f) ==
    LET rows == Sec(f.content, "FERTILIZERS").rows
        src == IF args.fertilizers.none
               THEN <<<<Replace(args.startdate, RefYear), 30, 20>>>>
               ELSE args.fertilizers.v
    IN  /\ Len(rows) = Len(src)
        /\ \A i \in 1..Len(rows) :
              /\ rows[i].date = Strftime(YearDay(src[i][1]))
              /\ DigitsValue(rows[i].amount) = src[i][2]
              /\ DigitsValue(rows[i].percent) = src[i][3]
              /\ Len(rows[i].fe) = 3
              /\ DigitsValue(rows[i].fe) = i
              /\ rows[i].ap = rows[i].fe

(***************************************************************************)
(* C4: the irrigation and the fertilizer sections hold one line per entry  *)
(* of the schedule, in the order of the schedule, and line i carries the   *)
(* record code i, counted from 1.                                          *)
(***************************************************************************)
C4_ScheduleLines == \A f \in fs : C4_Irrigation(f) /\ C4_Fertilizer(f)

\* a control file with two different irrigation and two different fertilizer lines
C4_Witness ==
    \E f \in fs :
        LET ir == Sec(f.content, "IRRIGATION").rows
            fe == Sec(f.content, "FERTILIZERS").rows
        IN  /\ Len(ir) = 2 /\ ir[1].date # ir[2].date /\ DigitsValue(ir[2].code) = 2
            /\ Len(fe) = 2 /\ fe[1].date # fe[2].date /\ DigitsValue(fe[2].fe) = 2

\* the rice cultivars of the table for member e (from 0)
C5_Rice(e) == {r \in Range(env.db) : r.crop = "rice" /\ r.ensemble = e + 1}

\* the statements executed for member e (from 0), in order
C5_Statements(e) ==
    LET q == SelectSeq(sqllog, LAMBDA x : x.ensemble = e + 1)
    IN  [i \in 1..Len(q) |-> q[i].stmt]

(***************************************************************************)
(* C5: cultivar() yields exactly one record: a row of the intersection     *)
(* query when that has rows, and then no second query is issued; else the  *)
(* nearest row, by centroid distance, of the reissued query.               *)
(***************************************************************************)
C5_CultivarResolved ==
    \A f \in fs :
        LET e == MemberOf(f)
            rows == Sec(f.content, "CULTIVAR").rows
            hit == {r \in C5_Rice(e) : r.intersects}
        IN  /\ Len(rows) = 1
            /\ IF hit # {}
               THEN /\ \E r \in hit : rows[1].p1 = r.p1 /\ cultivars[e + 1] = r.name
                    /\ C5_Statements(e) = <<"intersects">>
               ELSE /\ \E r \in C5_Rice(e) :
                          /\ rows[1].p1 = r.p1
                          /\ cultivars[e + 1] = r.name
                          /\ \A o \in C5_Rice(e) : r.dist <= o.dist
                    /\ C5_Statements(e) = <<"intersects", "nearest">>

\* no cultivar intersects the area, and the nearer one is the second row of the table
C5_Witness ==
    /\ Len(env.db) = 2
    /\ env.db[1].crop = "rice" /\ env.db[2].crop = "rice"
    /\ env.db[1].ensemble = 1 /\ env.db[2].ensemble = 1
    /\ ~env.db[1].intersects /\ ~env.db[2].intersects
    /\ env.db[1].dist > env.db[2].dist
    /\ \E f \in fs : MemberOf(f) = 0 /\ Sec(f.content, "CULTIVAR").rows[1].p1 = env.db[2].p1

(***************************************************************************)
(* C6: a call that returns has written exactly nens control files, one per *)
(* member, named by the ensemble count and the 3-digit member number, all  *)
(* names different, each file holding every section once, in DSSAT's order.*)
(***************************************************************************)
C6_FilesAndSections ==
    pc = "done" =>
        /\ Len(opened) = nens
        /\ Cardinality(fs) = nens
        /\ \A e \in 1..nens :
              /\ DigitsValue(opened[e].count) = nens
              /\ DigitsValue(opened[e].member) = e
              /\ Len(opened[e].member) = 3
              /\ \E f \in fs :
                    /\ f.name = opened[e]
                    /\ [i \in 1..Len(f.content) |-> f.content[i].sec] = SectionOrder
                    /\ Sec(f.content, "FILES").rows[1].weather = opened[e].member

\* a call for three ensemble members has returned
C6_Witness ==
    /\ pc = "done"
    /\ nens = 3
    /\ Cardinality(fs) = 3

(***************************************************************************)
(* C7 as stated: the initial-conditions section holds one data line per    *)
(* layer supplied to writeControlFile, line i carrying the depth of the    *)
(* supplied layer i.                                                       *)
(***************************************************************************)
C7_OneLinePerSuppliedLayer ==
    \A f \in fs :
        LET rows == Sec(f.content, "INITIAL CONDITIONS").rows
        IN  /\ Len(rows) = Len(args.depths)
            /\ \A i \in 1..Len(rows) : rows[i].depth = RoundLast(args.depths[i])

(***************************************************************************)
(* C7 amended: the initial-conditions section holds one data line per      *)
(* layer of the member's sampled soil profile, in layer order, line i      *)
(* carrying the profile's depth of layer i, to zero decimals, and the      *)
(* interpolated moisture of layer i, to three decimals.                    *)
(***************************************************************************)
C7_OneLinePerProfileLayer ==
    \A f \in fs :
        LET e == MemberOf(f)
            rows == Sec(f.content, "INITIAL CONDITIONS").rows
            profile == env.soil[e + 1]
        IN  /\ Len(rows) = Len(profile) - 4
            /\ \A i \in 1..Len(rows) :
                  /\ rows[i].depth = RoundLast(profile[i + 3][1])
                  /\ rows[i].moist = RoundLast(interpCalls[e + 1].smi[1][i])

\* a profile of two layers with different moistures, for three supplied depths
C7_Witness ==
    /\ Len(args.depths) = 3
    /\ \E f \in fs :
          LET rows == Sec(f.content, "INITIAL CONDITIONS").rows
          IN  /\ Len(rows) = 2
              /\ rows[2].depth = 60
              /\ rows[1].moist # rows[2].moist


(***************************************************************************)
(* C8: the ensemble members are run in the order 1..nens; the process of a *)
(* member is launched only after the process of the member before it has   *)
(* ended and its PlantGro.OUT was renamed; at most one process runs at any *)
(* time; and when the call returns, having started without a PlantGro.OUT, *)
(* every PLANTGRO<k>.OUT is there, written by the run of member k, and no  *)
(* PlantGro.OUT is left.                                                   *)
(***************************************************************************)
C8_Sequential ==
    /\ Cardinality(procs) <= 1
    /\ launched = [i \in 1..Len(launched) |-> i]
    /\ \A i \in 1..Len(status) : status[i].member = i
    /\ \A i \in 1..Len(renamed) : renamed[i].member = i
    /\ Len(launched) >= 1 =>
          LET k == Len(launched)
          IN  /\ Len(status) \in {k - 1, k}
              /\ Len(renamed) \in {k - 1, k}
              /\ Len(renamed) <= Len(status)
              /\ procs \subseteq {[member |-> k]}
              /\ procs # {} => Len(status) = k - 1 /\ Len(renamed) = k - 1
              /\ \A j \in 1..(k - 1) : Exists(dir, PlantGroOf(j))
    /\ (rpc = "done" /\ ~Exists(dir0, PlantGro)) =>
          /\ Len(launched) = nens
          /\ ~Exists(dir, PlantGro)
          /\ \A k \in 1..nens :
                \A f \in dir : f.name = PlantGroOf(k) <=> f = [name |-> PlantGroOf(k), by |-> k]
          /\ \A k \in 1..nens : Exists(dir, PlantGroOf(k))

\* a run of three members has returned, in a directory that held old outputs
C8_Witness ==
    /\ rpc = "done"
    /\ nens = 3
    /\ ~Exists(dir0, PlantGro)
    /\ Exists(dir0, PlantGroOf(2))
    /\ Len(renamed) = 3

\* the renamed output of member k in directory d, if any
C9_FilesOf(d, k) == {f \in d : f.name = PlantGroOf(k)}

\* the run has stopped at member k
C9_AbortedAt(k) ==
    /\ launched = [i \in 1..k |-> i]
    /\ procs = {}
    /\ Len(renamed) = k - 1
    /\ \A j \in k..nens : C9_FilesOf(dir, j) = C9_FilesOf(dir0, j)
    /\ \A j \in 1..(k - 1) :
          C9_FilesOf(dir, j) = {[name |-> PlantGroOf(j), by |-> renamed[j].by]}
    /\ ~ENABLED RunNext

(***************************************************************************)
(* C9: when the process of member k has ended and no PlantGro.OUT is       *)
(* there, the rename fails and the run aborts at member k: no process of a *)
(* later member is launched, no PLANTGRO file of member k or later is      *)
(* created, and the renamed outputs of the members before k stay in place. *)
(***************************************************************************)
C9_MissingOutputAborts ==
    /\ (rpc = "rename" /\ ~Exists(dir, PlantGro)) =>
          /\ ENABLED (RunNext /\ rpc' = "error" /\ rerr' = "OSError: rename")
          /\ ~ENABLED (RunNext /\ rpc' # "error")
    /\ (rpc = "error" /\ rerr = "OSError: rename") =>
          /\ ~Exists(dir, PlantGro)
          /\ C9_AbortedAt(rens + 1)

\* the run of member 2 left no PlantGro.OUT: the call has aborted, member 1's output is there
C9_Witness ==
    /\ rpc = "error"
    /\ rerr = "OSError: rename"
    /\ rens = 1
    /\ nens = 3
    /\ Exists(dir, PlantGroOf(1))
    /\ launched = <<1, 2>>

\* the call stops at member k without an output file for it
C10_AbortsAt(k) ==
    /\ \A i \in 1..Len(renamed) : renamed[i].member # k
    /\ Len(launched) = k
    /\ rpc \in {"communicate", "rename", "error"}

(***************************************************************************)
(* C10 as stated: when the process of a member exits with a nonzero status *)
(* the call aborts: no output file is renamed for that member and no later *)
(* member is launched.                                                     *)
(***************************************************************************)
C10_NonzeroExitAborts ==
    \A i \in 1..Len(status) : status[i].code # 0 => C10_AbortsAt(status[i].member)

(***************************************************************************)
(* C10 amended: when the process of a member exits with a nonzero status   *)
(* and no PlantGro.OUT is there, the call aborts: no output file is        *)
(* renamed for that member and no later member is launched.  The exit      *)
(* status itself is never read.                                            *)
(***************************************************************************)
C10_NonzeroExitWithoutOutputAborts ==
    \A i \in 1..Len(status) :
        (status[i].code # 0 /\ ~status[i].output) => C10_AbortsAt(status[i].member)

\* member 2 exited with a nonzero status and left no output: the call has aborted
C10_Witness ==
    /\ rpc = "error"
    /\ Len(status) = 2
    /\ status[1].code = 0
    /\ status[2].code # 0
    /\ ~status[2].output

=============================================================================
